---- MODULE Spec2Model ----
(***************************************************************************)
(* A state-machine model of src/shared-game-utils.js: the three page       *)
(* utilities GameErrorHandler, GameAccessibility and GamePerformanceMonitor *)
(* together with the parts of the browser they act on (the window's event   *)
(* listeners, the animation-frame scheduler, the canvas prototype, timers,  *)
(* the DOM nodes they create and the clock).                                *)
(***************************************************************************)
EXTENDS Integers, Sequences, FiniteSets, TLC

VARIABLES
    \* ---- the browser page -------------------------------------------------
    now,            \* the clock, in ms (Date and performance.now())
    listeners,      \* addEventListener registrations, in registration order
    rafChain,       \* wrappers installed over window.requestAnimationFrame
    canvasChain,    \* wrapper layers installed over the canvas prototype
    frameQueue,     \* callbacks handed to the native frame scheduler
    timers,         \* pending setTimeout / setInterval callbacks
    memoryApi,      \* whether performance.memory exists on this platform
    dom,            \* the document: buttons, images, containers, styles, ...
    mqMatches,      \* matchMedia('(forced-colors: active)').matches
    \* ---- GameErrorHandler instances ----------------------------------------
    eh_initialized, \* this.initialized, per instance
    errors,         \* this.errors, per instance
    \* ---- GameAccessibility -------------------------------------------------
    acc_initialized,\* this.initialized
    \* ---- GamePerformanceMonitor --------------------------------------------
    pm_initialized, \* this.initialized
    metrics,        \* this.metrics: fps, memory, loadTime
    frameCount,     \* this.frameCount
    lastTime,       \* this.lastTime
    \* ---- observation of the last call (what a caller of the API sees) -----
    lastCall,       \* the operation that ran last, and on which instance
    ret,            \* what the last operation returned
    outcome,        \* what the last state-changing operation did
    captured,       \* every record handleError made since the last clearErrors
    appended,       \* every sample pushed on the fps and the memory series
    driver,         \* the frame driver's current window of uniform frames
    announced       \* the announcements made, and which one the live region shows

pageVars == <<now, listeners, rafChain, canvasChain, frameQueue, timers,
              memoryApi, dom, mqMatches>>
ehVars   == <<eh_initialized, errors>>
accVars  == <<acc_initialized>>
pmVars   == <<pm_initialized, metrics, frameCount, lastTime>>
obsVars  == <<lastCall, ret, outcome, captured, appended, driver, announced>>
vars     == <<pageVars, ehVars, accVars, pmVars, obsVars>>

----------------------------------------------------------------------------
(* Bounds of the model *)

MaxRingFaults == 52     \* error events of a long run (more than maxErrors)
MaxCanvasFaults == 2    \* faults captured while drawing
MaxFrameFaults == 2     \* faults captured while frames run
MaxQueue == 2           \* callbacks waiting for the next frame
MaxFrameClock == 3      \* frames the sampler sees in SpecFrames
MaxButtons == 2         \* buttons on the page of SpecInit
MaxInitClock == 2       \* memory periods that pass in SpecInit
MaxLoadDelay == 2       \* seconds between construction and init in SpecSeries
MaxSeriesClock == 310   \* seconds of a long run (more than 60 memory periods)
MaxSamplerClock == 3000 \* ms of a short run of the sampler
MaxReportLen == 3       \* samples in the series a report is asked of
MaxAnnouncements == 3   \* announceToScreenReader calls
MaxAnnounceClock == 3000 \* ms of a run of announcements
MaxDirectCalls == 2     \* direct handleError calls at the start of a long run
MaxLabelButtons == 2    \* buttons on a page of SpecLabels
MaxLoopClock == 5       \* frames the sampler sees in SpecLoop
MaxLoopFaults == 2      \* faults captured in SpecLoop
LoopStep == 500         \* ms between two frames in SpecLoop
MaxEarlyClock == 6      \* frames and pauses of SpecEarly
EarlyStep == 250        \* ms between two of them
MaxNestedFaults == 3    \* faults captured in SpecNested
FrameStep == 500        \* ms between two frames of a short run
SeriesStep == 1000      \* ms between two frames of a long run
SamplerStep == 250      \* ms of idle time, or between two undriven frames
AnnounceStep == 500     \* ms between two looks at the live region

(* Program constants *)

maxErrors == 50         \* this.maxErrors
RecentCount == 10       \* errors.slice(-10)
MaxSamples == 60        \* metrics.fps.length > 60, metrics.memory.length > 60
SampleWindow == 1000    \* elapsed >= 1000
MemoryPeriod == 5000    \* setInterval(..., 5000)
LowFps == 30            \* fps < 30, averageFPS < 30
VeryLowFps == 20        \* averageFPS < 20
HighMemoryMiB == 500    \* 500 * 1024 * 1024
ClearDelay == 1000      \* setTimeout(..., 1000)
MiB == 1024             \* 1024 * 1024 bytes; heap sizes are counted in KiB

\* The GameErrorHandler instances on the page (initAll may run twice).
Handlers == {1, 2}

----------------------------------------------------------------------------
(* JavaScript values *)

Undefined == [t |-> "undefined"]
Null == [t |-> "null"]
Str(s) == [t |-> "string", s |-> s]
Num(n) == [t |-> "number", n |-> n]
Err(m, st) == [t |-> "Error", message |-> m, stack |-> st]

IsError(v) == v.t = "Error"
\* ToBoolean: undefined, null and the empty string are falsy
Truthy(v) == ~(v.t \in {"undefined", "null"} \/ (v.t = "string" /\ v.s = ""))
\* a || b
JsOr(a, b) == IF Truthy(a) THEN a ELSE b
\* String(v) for a value that is no Error
String(v) ==
    CASE v.t = "undefined" -> "undefined"
      [] v.t = "null" -> "null"
      [] v.t = "string" -> v.s
      [] OTHER -> "[object Object]"

Min(a, b) == IF a < b THEN a ELSE b
Max(a, b) == IF a > b THEN a ELSE b
\* seq.slice(-k): the last k elements (all of them when there are fewer)
SliceLast(seq, k) == SubSeq(seq, Max(1, Len(seq) - k + 1), Len(seq))

----------------------------------------------------------------------------
(* GameErrorHandler *)

gameName(h) == IF h = 1 THEN "game-1" ELSE "game-n"

\* new Date().toISOString()
ToISOString(t) == <<"ISO", t>>

\* The record handleError builds (lines 42-48).
ErrorInfo(h, t, error, source) ==
    [timestamp |-> ToISOString(t),
     game |-> gameName(h),
     source |-> source,
     message |-> IF IsError(error) THEN error.message ELSE String(error),
     stack |-> IF IsError(error) THEN Str(error.stack) ELSE Undefined]

\* A mutant of PushError: the newest record is dropped instead of the oldest.
PushError_DropNewest(errs, info) ==
    LET pushed == Append(errs, info)
    IN  IF Len(pushed) > maxErrors THEN SubSeq(pushed, 1, Len(pushed) - 1) ELSE pushed

\* this.errors.push(errorInfo); if (length > maxErrors) this.errors.shift()
PushError(errs, info) ==
    LET pushed == Append(errs, info)
    IN  IF Len(pushed) > maxErrors THEN Tail(pushed) ELSE pushed

\* A call of handleError is [owner, error, source]; ApplyCalls runs a sequence
\* of them, all at clock value t, on the instances' error lists.
RECURSIVE ApplyCalls(_, _, _)
ApplyCalls(errs, calls, t) ==
    IF calls = <<>> THEN errs
    ELSE LET c == Head(calls)
         IN  ApplyCalls([errs EXCEPT ![c.owner] =
                            PushError(@, ErrorInfo(c.owner, t, c.error, c.source))],
                        Tail(calls), t)

\* The same calls, appended to the unbounded history (observation only).
RECURSIVE RecordCalls(_, _, _)
RecordCalls(capt, calls, t) ==
    IF calls = <<>> THEN capt
    ELSE LET c == Head(calls)
         IN  RecordCalls([capt EXCEPT ![c.owner] =
                            Append(@, ErrorInfo(c.owner, t, c.error, c.source))],
                         Tail(calls), t)

\* The properties a plain object {} inherits from Object.prototype (the ones
\* the model's callers can name), and the text String(value) gives for each.
InheritedKeys == {"constructor", "toString", "__proto__"}
InheritedText(key) ==
    CASE key = "constructor" -> "function Object() { [native code] }"
      [] key = "toString" -> "function toString() { [native code] }"
      [] key = "__proto__" -> "[object Object]"

\* (acc[key] || 0) + 1 on the plain object acc (line 121): an own count is
\* incremented; an own or inherited value that is no number is truthy, and
\* + 1 appends "1" to its text.
Bumped(acc, key) ==
    IF key \in DOMAIN acc
    THEN IF acc[key].t = "number" THEN Num(acc[key].n + 1) ELSE Str(acc[key].s \o "1")
    ELSE IF key \in InheritedKeys THEN Str(InheritedText(key) \o "1") ELSE Num(1)

\* bySource: errors.reduce((acc, e) => { acc[e.source] = (acc[e.source] || 0) + 1;
\* return acc }, {}).  Assigning a string to acc.__proto__ goes to the
\* inherited setter, which ignores it: no own property is made.
RECURSIVE CountBySource(_, _)
CountBySource(errs, acc) ==
    IF errs = <<>> THEN acc
    ELSE LET s == Head(errs).source
             v == Bumped(acc, s)
         IN  CountBySource(Tail(errs),
                IF s = "__proto__" THEN acc
                ELSE [x \in DOMAIN acc \cup {s} |-> IF x = s THEN v ELSE acc[x]])

\* getErrorStats (lines 116-125)
ErrorStats(errs) ==
    [total |-> Len(errs),
     recent |-> SliceLast(errs, RecentCount),
     bySource |-> CountBySource(errs, <<>>)]

----------------------------------------------------------------------------
(* The page's events *)

\* The listeners init registers (lines 21-28) turn an event into handleError
\* calls: 'error' -> handleError(event.error || event.message, 'window.error'),
\* 'unhandledrejection' -> handleError(event.reason, 'unhandledrejection').
ListenerCall(l, ev) ==
    IF ev.type = "error"
    THEN [owner |-> l.owner, error |-> JsOr(ev.error, ev.message), source |-> "window.error"]
    ELSE [owner |-> l.owner, error |-> ev.reason, source |-> "unhandledrejection"]

RECURSIVE ListenerCalls(_, _)
ListenerCalls(ls, ev) ==
    IF ls = <<>> THEN <<>>
    ELSE IF Head(ls).type = ev.type
         THEN <<ListenerCall(Head(ls), ev)>> \o ListenerCalls(Tail(ls), ev)
         ELSE ListenerCalls(Tail(ls), ev)

NoRet == Undefined
NoOutcome == [kind |-> "none"]
None == [t |-> "none"]      \* "no exception was thrown"
Called(op, h) == [op |-> op, inst |-> h]

\* made counts the live regions created (line 326).
NoLiveRegion == [exists |-> FALSE, ariaLive |-> "", text |-> "", made |-> 0]
NoClear == [by |-> 0, erased |-> 0, age |-> 0]
NoneAnnounced == [count |-> 0, shownBy |-> 0, shownAt |-> 0, lastClear |-> NoClear]
EmptyDom ==
    [buttons |-> <<>>, images |-> <<>>, containers |-> <<>>, head |-> <<>>,
     overlays |-> <<>>, htmlClasses |-> {}, live |-> NoLiveRegion]
NoDriver == [n |-> 0, left |-> 0, fresh |-> FALSE, aligned |-> FALSE, samples |-> <<>>]

\* The state after the page has loaded the script and constructed the
\* instances: d is the page's document, mem whether performance.memory
\* exists, mq whether forced colors are active.
InitPage(d, mem, mq) ==
    /\ now = 0
    /\ listeners = <<>>
    /\ rafChain = <<>>
    /\ canvasChain = <<>>
    /\ frameQueue = <<>>
    /\ timers = <<>>
    /\ memoryApi = mem
    /\ dom = d
    /\ mqMatches = mq
    /\ eh_initialized = [h \in Handlers |-> FALSE]
    /\ errors = [h \in Handlers |-> <<>>]
    /\ acc_initialized = FALSE
    /\ pm_initialized = FALSE
    /\ metrics = [fps |-> <<>>, memory |-> <<>>, loadTime |-> Null]
    /\ frameCount = 0
    /\ lastTime = now
    /\ lastCall = [op |-> "new", inst |-> 0]
    /\ ret = NoRet
    /\ outcome = NoOutcome
    /\ captured = [h \in Handlers |-> <<>>]
    /\ appended = [fps |-> <<>>, memory |-> <<>>]
    /\ driver = NoDriver
    /\ announced = NoneAnnounced

Init == InitPage(EmptyDom, TRUE, FALSE)

\* A mutant of EH_InitGuard: init never returns early.
EH_InitGuard_Missing(h) == FALSE

\* if (this.initialized) return;
EH_InitGuard(h) == eh_initialized[h]

\* GameErrorHandler.init (lines 17-38)
EH_Init(h) ==
    /\ lastCall' = Called("init", h)
    /\ ret' = NoRet
    /\ outcome' = [kind |-> "init", early |-> EH_InitGuard(h)]
    /\ IF EH_InitGuard(h)
       THEN UNCHANGED <<listeners, rafChain, canvasChain, eh_initialized>>
       ELSE /\ listeners' = listeners \o
                    <<[target |-> "window", type |-> "error", owner |-> h],
                      [target |-> "window", type |-> "unhandledrejection", owner |-> h]>>
            /\ canvasChain' = Append(canvasChain, h)
            /\ rafChain' = Append(rafChain, h)
            /\ eh_initialized' = [eh_initialized EXCEPT ![h] = TRUE]
    /\ UNCHANGED <<now, frameQueue, timers, memoryApi, dom, mqMatches, errors,
                   accVars, pmVars, captured, appended, driver, announced>>

\* A direct call handleError(error, source) (lines 41-63), dt ms after the
\* previous event.
EH_HandleError(h, error, source, dt) ==
    LET calls == <<[owner |-> h, error |-> error, source |-> source]>>
    IN  /\ now' = now + dt
        /\ errors' = ApplyCalls(errors, calls, now')
        /\ captured' = RecordCalls(captured, calls, now')
        /\ ret' = ErrorInfo(h, now', error, source)
        /\ lastCall' = Called("handleError", h)
        /\ outcome' = NoOutcome
        /\ UNCHANGED <<listeners, rafChain, canvasChain, frameQueue, timers, memoryApi,
                       dom, mqMatches, eh_initialized, accVars, pmVars, appended, driver, announced>>

\* The window dispatches an 'error' or 'unhandledrejection' event, dt ms
\* after the previous event; the listeners of lines 21-28 run in order.
WindowEvent(ev, dt) ==
    LET calls == ListenerCalls(listeners, ev)
    IN  /\ now' = now + dt
        /\ errors' = ApplyCalls(errors, calls, now')
        /\ captured' = RecordCalls(captured, calls, now')
        /\ ret' = NoRet
        /\ lastCall' = Called(ev.type, 0)
        /\ outcome' = [kind |-> "event", calls |-> Len(calls)]
        /\ UNCHANGED <<listeners, rafChain, canvasChain, frameQueue, timers, memoryApi,
                       dom, mqMatches, eh_initialized, accVars, pmVars, appended, driver, announced>>

\* A mutant of ClearedErrors: the newest record survives the clear.
ClearedErrors_KeepLast(errs) == SliceLast(errs, 1)

\* this.errors = []
ClearedErrors(errs) == <<>>

\* clearErrors (lines 128-130)
EH_ClearErrors(h) ==
    /\ errors' = [errors EXCEPT ![h] = ClearedErrors(@)]
    /\ captured' = [captured EXCEPT ![h] = <<>>]
    /\ ret' = NoRet
    /\ lastCall' = Called("clearErrors", h)
    /\ outcome' = [kind |-> "cleared", dropped |-> Len(errors[h])]
    /\ UNCHANGED <<pageVars, eh_initialized, accVars, pmVars, appended, driver, announced>>

\* getErrorStats (lines 116-125): a query, it changes nothing.
EH_GetErrorStats(h) ==
    /\ ret' = ErrorStats(errors[h])
    /\ lastCall' = Called("getErrorStats", h)
    /\ UNCHANGED <<pageVars, ehVars, accVars, pmVars, outcome, captured, appended, driver, announced>>

----------------------------------------------------------------------------
(* The animation-frame scheduler and its wrappers *)

\* A mutant of Schedule: the callback is never handed to the scheduler.
Schedule_Dropped(queue, cb) == queue

\* window.requestAnimationFrame(cb) as currently patched (lines 104-112):
\* every installed wrapper puts its own try/catch around the callback and
\* hands the result to the scheduler it replaced; the native scheduler
\* queues it.  guards lists the wrapping instances, the first installed
\* (outermost try) first.
Schedule(queue, cb) == Append(queue, [cb |-> cb, guards |-> rafChain])

\* A mutant of RunGuarded: the first installed wrapper records the exception.
RunGuarded_FirstInstalled(gs, thrown) ==
    IF gs = <<>> \/ thrown = None THEN [calls |-> <<>>, thrown |-> thrown]
    ELSE [calls |-> <<[owner |-> Head(gs), error |-> thrown,
                       source |-> "requestAnimationFrame"]>>,
          thrown |-> None]

\* A mutant of RunGuarded: the wrapper has no try/catch.
RunGuarded_NoCatch(gs, thrown) == [calls |-> <<>>, thrown |-> thrown]

\* Running a queued callback that throws `thrown` (None: it returns) inside
\* the try/catch of each guard (lines 105-111): the handleError calls made,
\* and what still propagates to the native scheduler.
RECURSIVE RunGuarded(_, _)
RunGuarded(gs, thrown) ==
    IF gs = <<>> THEN [calls |-> <<>>, thrown |-> thrown]
    ELSE LET inner == RunGuarded(Tail(gs), thrown)
         IN  IF inner.thrown # None
             THEN [calls |-> Append(inner.calls,
                                    [owner |-> Head(gs), error |-> inner.thrown,
                                     source |-> "requestAnimationFrame"]),
                   thrown |-> None]
             ELSE inner

\* Whether time may pass: no timer is due (a due timer fires first).
TimeMayPass == \A i \in 1..Len(timers) : timers[i].due > now

\* Page code calls requestAnimationFrame(cb) with a callback of its own.
RequestFrame(cb) ==
    /\ frameQueue' = Schedule(frameQueue, cb)
    /\ lastCall' = Called("requestAnimationFrame", 0)
    /\ ret' = NoRet
    /\ outcome' = NoOutcome
    /\ UNCHANGED <<now, listeners, rafChain, canvasChain, timers, memoryApi, dom,
                   mqMatches, ehVars, accVars, pmVars, captured, appended, driver, announced>>

\* The scheduler runs the oldest queued callback, a callback of the page,
\* dt ms after the previous event; the callback throws `thrown` or returns.
FrameGame(thrown, dt) ==
    /\ frameQueue # <<>>
    /\ Head(frameQueue).cb = "game"
    /\ dt = 0 \/ TimeMayPass
    /\ LET run == RunGuarded(Head(frameQueue).guards, thrown)
       IN  /\ now' = now + dt
           /\ frameQueue' = Tail(frameQueue)
           /\ errors' = ApplyCalls(errors, run.calls, now')
           /\ captured' = RecordCalls(captured, run.calls, now')
           /\ outcome' = [kind |-> "frame", cb |-> "game", threw |-> thrown # None,
                          guards |-> Head(frameQueue).guards,
                          escaped |-> run.thrown # None,
                          caught |-> Len(run.calls)]
    /\ lastCall' = Called("frame", 0)
    /\ ret' = NoRet
    /\ UNCHANGED <<listeners, rafChain, canvasChain, timers, memoryApi, dom, mqMatches,
                   eh_initialized, accVars, pmVars, appended, driver, announced>>

----------------------------------------------------------------------------
(* The canvas prototype and its wrappers (lines 66-99) *)

\* A mutant of CallClearRect: the wrapper lets the exception through.
CallClearRect_Rethrow(layers, fails) == [thrown |-> fails, warns |-> 0]

\* The patched clearRect under `layers` wrapper layers, the native clearRect
\* failing or not (lines 92-98).
RECURSIVE CallClearRect(_, _)
CallClearRect(layers, fails) ==
    IF layers = 0 THEN [thrown |-> fails, warns |-> 0]
    ELSE LET r == CallClearRect(layers - 1, fails)
         IN  IF r.thrown THEN [thrown |-> FALSE, warns |-> r.warns + 1] ELSE r

\* A mutant of CallDrawImage: the catch block logs nothing.
CallDrawImage_Silent(layers, fails) == [thrown |-> FALSE, warns |-> 0]

\* The patched drawImage (lines 84-90).
RECURSIVE CallDrawImage(_, _)
CallDrawImage(layers, fails) ==
    IF layers = 0 THEN [thrown |-> fails, warns |-> 0]
    ELSE LET r == CallDrawImage(layers - 1, fails)
         IN  IF r.thrown THEN [thrown |-> FALSE, warns |-> r.warns + 1] ELSE r

\* The patched fillRect (lines 71-82).  A layer that catches a failure calls
\* this.clearRect, the method now on the prototype (all `installed` layers),
\* inside a try/catch of its own.
RECURSIVE CallFillRect(_, _, _, _)
CallFillRect(layers, installed, fails, clearFails) ==
    IF layers = 0
    THEN [thrown |-> fails, warns |-> 0, recoveries |-> 0, recoveryThrew |-> FALSE]
    ELSE LET r == CallFillRect(layers - 1, installed, fails, clearFails)
             rec == CallClearRect(installed, clearFails)
         IN  IF r.thrown
             THEN [thrown |-> FALSE, warns |-> r.warns + 1 + rec.warns,
                   recoveries |-> r.recoveries + 1, recoveryThrew |-> rec.thrown]
             ELSE r

DrawOps == {"fillRect", "drawImage", "clearRect"}

\* Page code calls ctx.fillRect / drawImage / clearRect; the native operation
\* fails or not, and so does the native clearRect of a recovery.
CanvasCall(op, fails, clearFails) ==
    LET k == Len(canvasChain)
        r == CASE op = "fillRect" -> CallFillRect(k, k, fails, clearFails)
               [] op = "drawImage" ->
                    CallDrawImage(k, fails) @@ [recoveries |-> 0, recoveryThrew |-> FALSE]
               [] op = "clearRect" ->
                    CallClearRect(k, fails) @@ [recoveries |-> 0, recoveryThrew |-> FALSE]
    IN  /\ outcome' = [kind |-> "draw", op |-> op, layers |-> k, failed |-> fails,
                       clearFails |-> clearFails, reachedCaller |-> r.thrown,
                       warns |-> r.warns, recoveries |-> r.recoveries]
        /\ lastCall' = Called(op, 0)
        /\ ret' = NoRet
        /\ UNCHANGED <<pageVars, ehVars, accVars, pmVars, captured, appended, driver, announced>>

----------------------------------------------------------------------------
(* GamePerformanceMonitor *)

\* Math.round(a / b) for a >= 0, b > 0: halves round up.
Round(a, b) == (2 * a + b) \div (2 * b)

\* A mutant of FpsSample: the rate is truncated instead of rounded.
FpsSample_Floor(count, elapsed) == (count * 1000) \div elapsed

\* A mutant of FpsSample: the frame that closes the window is not counted.
FpsSample_OffByOne(count, elapsed) == Round((count - 1) * 1000, elapsed)

\* Math.round((this.frameCount * 1000) / elapsed)  (line 386)
FpsSample(count, elapsed) == Round(count * 1000, elapsed)

\* A mutant of PushFps: the newest sample is dropped instead of the oldest.
PushFps_DropNewest(series, fps) ==
    LET pushed == Append(series, fps)
    IN  IF Len(pushed) > MaxSamples THEN SubSeq(pushed, 1, Len(pushed) - 1) ELSE pushed

\* metrics.fps.push(fps); if (length > 60) shift()  (lines 387-392)
PushFps(series, fps) ==
    LET pushed == Append(series, fps)
    IN  IF Len(pushed) > MaxSamples THEN Tail(pushed) ELSE pushed

\* metrics.memory.push({...}); if (length > 60) shift()  (lines 415-425)
PushMemory(series, snapshot) ==
    LET pushed == Append(series, snapshot)
    IN  IF Len(pushed) > MaxSamples THEN Tail(pushed) ELSE pushed

\* if (this.initialized) return;
PM_InitGuard == pm_initialized

\* GamePerformanceMonitor.init (lines 360-376), with startFPSMonitoring's
\* first requestAnimationFrame and startMemoryMonitoring's setInterval.
PM_Init ==
    /\ lastCall' = Called("pm.init", 0)
    /\ ret' = NoRet
    /\ outcome' = [kind |-> "init", early |-> PM_InitGuard]
    /\ IF PM_InitGuard
       THEN UNCHANGED <<metrics, frameQueue, timers, pm_initialized>>
       ELSE /\ metrics' = [metrics EXCEPT !.loadTime = Num(now)]
            /\ frameQueue' = Schedule(frameQueue, "measureFPS")
            /\ timers' = IF memoryApi
                         THEN Append(timers, [kind |-> "interval", due |-> now + MemoryPeriod,
                                              call |-> 0])
                         ELSE timers
            /\ pm_initialized' = TRUE
    /\ UNCHANGED <<now, listeners, rafChain, canvasChain, memoryApi, dom, mqMatches,
                   ehVars, accVars, frameCount, lastTime, captured, appended, driver, announced>>

\* The body of measureFPS (lines 380-405) for the frame delivered dt ms after
\* the previous event; d is what the frame driver's window becomes.
MeasureFPS(dt, d) ==
    /\ frameQueue # <<>>
    /\ Head(frameQueue).cb = "measureFPS"
    /\ dt = 0 \/ TimeMayPass
    /\ now' = now + dt
    /\ LET count == frameCount + 1
           elapsed == now' - lastTime
           fps == FpsSample(count, elapsed)
       IN  IF elapsed >= SampleWindow
           THEN /\ metrics' = [metrics EXCEPT !.fps = PushFps(@, fps)]
                /\ appended' = [appended EXCEPT !.fps = Append(@, fps)]
                /\ frameCount' = 0
                /\ lastTime' = now'
                /\ outcome' = [kind |-> "frame", cb |-> "measureFPS", sampled |-> TRUE,
                               count |-> count, elapsed |-> elapsed,
                               warned |-> fps < LowFps]
                /\ driver' = [d EXCEPT !.samples = Append(@, fps)]
           ELSE /\ frameCount' = count
                /\ outcome' = [kind |-> "frame", cb |-> "measureFPS", sampled |-> FALSE,
                               count |-> count, elapsed |-> elapsed, warned |-> FALSE]
                /\ driver' = d
                /\ UNCHANGED <<metrics, appended, lastTime>>
    /\ frameQueue' = Schedule(Tail(frameQueue), "measureFPS")
    /\ lastCall' = Called("frame", 0)
    /\ ret' = NoRet
    /\ UNCHANGED <<listeners, rafChain, canvasChain, timers, memoryApi, dom, mqMatches,
                   ehVars, accVars, pm_initialized, captured, announced>>

\* A frame outside any driven window.
FrameMeasure(dt) == MeasureFPS(dt, NoDriver)

\* The frame driver starts a window: it will deliver n frames, one every
\* 1000/n ms, the last one exactly 1000 ms from now.
StartWindow(n) ==
    /\ pm_initialized
    /\ driver.left = 0
    /\ driver' = [n |-> n, left |-> n, samples |-> <<>>,
                  fresh |-> frameCount = 0,
                  aligned |-> (lastTime = now /\ frameCount = 0)]
    /\ lastCall' = Called("startWindow", 0)
    /\ ret' = NoRet
    /\ outcome' = NoOutcome
    /\ UNCHANGED <<pageVars, ehVars, accVars, pmVars, captured, appended, announced>>

\* The next frame of the driver's window.
WindowFrame ==
    /\ driver.left > 0
    /\ MeasureFPS(SampleWindow \div driver.n, [driver EXCEPT !.left = @ - 1])

\* Time passes without a frame (the page is loading, or hidden).
Idle(dt) ==
    /\ TimeMayPass
    /\ now' = now + dt
    /\ lastCall' = Called("idle", 0)
    /\ ret' = NoRet
    /\ outcome' = NoOutcome
    /\ driver' = NoDriver
    /\ UNCHANGED <<listeners, rafChain, canvasChain, frameQueue, timers, memoryApi, dom,
                   mqMatches, ehVars, accVars, pmVars, captured, appended, announced>>

\* The interval of startMemoryMonitoring fires (lines 412-435): `reading`
\* is performance.memory, or None when reading it throws.
MemoryTick(i, reading) ==
    /\ i \in 1..Len(timers)
    /\ timers[i].kind = "interval"
    /\ timers[i].due <= now
    /\ timers' = [timers EXCEPT ![i].due = @ + MemoryPeriod]
    /\ IF reading = None
       THEN /\ outcome' = [kind |-> "memory", sampled |-> FALSE, warned |-> FALSE]
            /\ UNCHANGED <<metrics, appended>>
       ELSE LET snapshot == [usedJSHeapSize |-> reading.used,
                             totalJSHeapSize |-> reading.total,
                             jsHeapSizeLimit |-> reading.limit,
                             timestamp |-> now]
            IN  /\ metrics' = [metrics EXCEPT !.memory = PushMemory(@, snapshot)]
                /\ appended' = [appended EXCEPT !.memory = Append(@, snapshot)]
                \* usedJSHeapSize / jsHeapSizeLimit > 0.8
                /\ outcome' = [kind |-> "memory", sampled |-> TRUE,
                               warned |-> 5 * reading.used > 4 * reading.limit]
    /\ lastCall' = Called("memoryTick", 0)
    /\ ret' = NoRet
    /\ UNCHANGED <<now, listeners, rafChain, canvasChain, frameQueue, memoryApi, dom,
                   mqMatches, ehVars, accVars, pm_initialized, frameCount, lastTime,
                   captured, driver, announced>>

\* A mutant of AverageFps: an empty series reports a full frame rate.
AverageFps_EmptyAsFull(fps) ==
    LET sum[i \in 0..Len(fps)] == IF i = 0 THEN 0 ELSE sum[i - 1] + fps[i]
    IN  IF Len(fps) > 0 THEN Round(sum[Len(fps)], Len(fps)) ELSE 60

\* avgFPS (lines 441-442): the rounded mean, 0 for an empty series.
AverageFps(fps) ==
    LET sum[i \in 0..Len(fps)] == IF i = 0 THEN 0 ELSE sum[i - 1] + fps[i]
    IN  IF Len(fps) > 0 THEN Round(sum[Len(fps)], Len(fps)) ELSE 0

SeqMin(q) == CHOOSE x \in {q[i] : i \in 1..Len(q)} : \A j \in 1..Len(q) : x <= q[j]
SeqMax(q) == CHOOSE x \in {q[i] : i \in 1..Len(q)} : \A j \in 1..Len(q) : x >= q[j]

\* getPerformanceReport (lines 439-459)
PerformanceReport(m) ==
    [game |-> "game-1",
     loadTime |-> m.loadTime,
     currentFPS |-> IF Len(m.fps) > 0 THEN m.fps[Len(m.fps)] ELSE 0,
     averageFPS |-> AverageFps(m.fps),
     minFPS |-> IF Len(m.fps) > 0 THEN SeqMin(m.fps) ELSE 0,
     maxFPS |-> IF Len(m.fps) > 0 THEN SeqMax(m.fps) ELSE 0,
     fpsSamples |-> Len(m.fps),
     memorySamples |-> Len(m.memory),
     lastMemory |-> IF Len(m.memory) > 0 THEN m.memory[Len(m.memory)] ELSE Null]

\* A mutant of PerformanceSuggestions: the first threshold is off by one.
PerformanceSuggestions_Inclusive(report) ==
    (IF report.averageFPS <= LowFps THEN <<"reduce-quality">> ELSE <<>>)
    \o (IF report.averageFPS < VeryLowFps THEN <<"very-low-fps">> ELSE <<>>)
    \o (IF report.lastMemory # Null /\ report.lastMemory.usedJSHeapSize > HighMemoryMiB * MiB
        THEN <<"restart-for-memory">> ELSE <<>>)

\* getPerformanceSuggestions (lines 462-479); the suggestion texts are named
\* "reduce-quality" (line 467), "very-low-fps" (line 471) and
\* "restart-for-memory" (line 475).
PerformanceSuggestions(report) ==
    (IF report.averageFPS < LowFps THEN <<"reduce-quality">> ELSE <<>>)
    \o (IF report.averageFPS < VeryLowFps THEN <<"very-low-fps">> ELSE <<>>)
    \o (IF report.lastMemory # Null /\ report.lastMemory.usedJSHeapSize > HighMemoryMiB * MiB
        THEN <<"restart-for-memory">> ELSE <<>>)

PM_GetPerformanceReport ==
    /\ ret' = PerformanceReport(metrics)
    /\ lastCall' = Called("getPerformanceReport", 0)
    /\ UNCHANGED <<pageVars, ehVars, accVars, pmVars, outcome, captured, appended, driver, announced>>

PM_GetPerformanceSuggestions ==
    /\ ret' = PerformanceSuggestions(PerformanceReport(metrics))
    /\ lastCall' = Called("getPerformanceSuggestions", 0)
    /\ UNCHANGED <<pageVars, ehVars, accVars, pmVars, outcome, captured, appended, driver, announced>>

----------------------------------------------------------------------------
(* GameAccessibility *)

\* The fallback strings of lines 191, 201 and 220.
DefaultButtonLabel == "(default button label)"
DefaultImageAlt == "(default image alt)"
DefaultAreaLabel == "(default game area label)"

\* textContent.trim() on the texts the model's pages use
Trim(s) == IF s = " " THEN "" ELSE IF s = " Play " THEN "Play" ELSE s

FocusStyle == [id |-> "", rule |-> "button.has-focus-style:focus"]
HighContrastStyle == [id |-> "high-contrast-styles", rule |-> ".high-contrast-mode"]

\* A mutant of getButtonLabel: the text is used as it is, without trim().
getButtonLabel_NoTrim(button) ==
    JsOr(button.ariaLabel,
         JsOr(Str(button.text),
              JsOr(button.title,
                   JsOr(Str(button.id), Str(DefaultButtonLabel)))))

\* getButtonLabel (lines 185-192)
getButtonLabel(button) ==
    JsOr(button.ariaLabel,
         JsOr(Str(Trim(button.text)),
              JsOr(button.title,
                   JsOr(Str(button.id), Str(DefaultButtonLabel)))))

\* The body of addButtonAccessibility's forEach for one button (lines 163-180):
\* the button afterwards, and the style elements appended to the head.
LabelledButton(button) ==
    LET withLabel == IF button.ariaLabel = Null
                     THEN [button EXCEPT !.ariaLabel = Str(String(getButtonLabel(button)))]
                     ELSE button
    IN  IF "has-focus-style" \in button.classes
        THEN [button |-> withLabel, styles |-> <<>>]
        ELSE [button |-> [withLabel EXCEPT !.classes = @ \cup {"has-focus-style"}],
              styles |-> <<FocusStyle>>]

RECURSIVE FocusStylesAdded(_)
FocusStylesAdded(buttons) ==
    IF buttons = <<>> THEN <<>>
    ELSE LabelledButton(Head(buttons)).styles \o FocusStylesAdded(Tail(buttons))

\* addButtonAccessibility (lines 161-182)
addButtonAccessibility(d) ==
    [d EXCEPT !.buttons = [i \in 1..Len(d.buttons) |-> LabelledButton(d.buttons[i]).button],
              !.head = @ \o FocusStylesAdded(d.buttons)]

\* The body of addImageAccessibility's forEach (lines 197-203)
LabelledImage(img) ==
    IF img.alt = Null
    THEN [img EXCEPT !.alt = Str(String(JsOr(img.ariaLabel,
                                   JsOr(img.title,
                                        JsOr(Str(img.id), Str(DefaultImageAlt))))))]
    ELSE img

\* addImageAccessibility (lines 195-205)
addImageAccessibility(d) ==
    [d EXCEPT !.images = [i \in 1..Len(d.images) |-> LabelledImage(d.images[i])]]

\* The body of addKeyboardNavigation's forEach (lines 212-222)
NavigableContainer(c) ==
    LET focusable == IF c.tabindex = Null
                     THEN [c EXCEPT !.tabindex = Str("0"), !.role = Str("application")]
                     ELSE c
    IN  IF focusable.ariaLabel = Null
        THEN [focusable EXCEPT !.ariaLabel =
                Str(String(JsOr(focusable.ariaLabel,
                                JsOr(Str(focusable.id), Str(DefaultAreaLabel)))))]
        ELSE focusable

\* addKeyboardNavigation (lines 208-227) with addKeyboardShortcutsHelp's new
\* overlay element (lines 241-257); its keydown listener is added by ACC_Init.
addKeyboardNavigation(d) ==
    [d EXCEPT !.containers = [i \in 1..Len(d.containers) |-> NavigableContainer(d.containers[i])],
              !.overlays = Append(@, [display |-> "none"])]

\* applyHighContrastStyles (lines 290-311)
applyHighContrastStyles(d) == [d EXCEPT !.head = Append(@, HighContrastStyle)]

\* A mutant of removeHighContrastStyles: the style element is left in place.
removeHighContrastStyles_Keep(d) == d

\* removeHighContrastStyles (lines 314-319): getElementById finds the first
\* element with the id, if any, and removes it.
removeHighContrastStyles(d) ==
    LET hits == {i \in 1..Len(d.head) : d.head[i].id = "high-contrast-styles"}
    IN  IF hits = {} THEN d
        ELSE LET first == CHOOSE i \in hits : \A j \in hits : i <= j
             IN  [d EXCEPT !.head = SubSeq(@, 1, first - 1) \o SubSeq(@, first + 1, Len(@))]

\* What detectHighContrastMode and its change listener do with the query's
\* state (lines 272-275 and 279-285).
HighContrastOn(d) ==
    applyHighContrastStyles([d EXCEPT !.htmlClasses = @ \cup {"high-contrast-mode"}])
HighContrastOff(d) ==
    removeHighContrastStyles([d EXCEPT !.htmlClasses = @ \ {"high-contrast-mode"}])

\* if (this.initialized) return;
ACC_InitGuard == acc_initialized

\* GameAccessibility.init (lines 141-158)
ACC_Init ==
    /\ lastCall' = Called("acc.init", 0)
    /\ ret' = NoRet
    /\ outcome' = [kind |-> "init", early |-> ACC_InitGuard]
    /\ IF ACC_InitGuard
       THEN UNCHANGED <<dom, listeners, acc_initialized>>
       ELSE LET swept == addKeyboardNavigation(addImageAccessibility(addButtonAccessibility(dom)))
            IN  /\ dom' = IF mqMatches THEN HighContrastOn(swept) ELSE swept
                /\ listeners' = listeners \o
                       <<[target |-> "document", type |-> "keydown",
                          owner |-> Len(swept.overlays)],
                         [target |-> "mediaQuery", type |-> "change", owner |-> 0]>>
                /\ acc_initialized' = TRUE
    /\ UNCHANGED <<now, rafChain, canvasChain, frameQueue, timers, memoryApi, mqMatches,
                   ehVars, pmVars, captured, appended, driver, announced>>

\* The change listeners of detectHighContrastMode (lines 278-286), run in
\* registration order for a change of the media query to `matches`.
RECURSIVE RunChangeListeners(_, _, _)
RunChangeListeners(ls, d, matches) ==
    IF ls = <<>> THEN d
    ELSE IF Head(ls).type = "change"
         THEN RunChangeListeners(Tail(ls),
                                 IF matches THEN HighContrastOn(d) ELSE HighContrastOff(d),
                                 matches)
         ELSE RunChangeListeners(Tail(ls), d, matches)

\* The platform switches forced colors on or off.
MediaChange ==
    /\ mqMatches' = ~mqMatches
    /\ dom' = RunChangeListeners(listeners, dom, mqMatches')
    /\ lastCall' = Called("change", 0)
    /\ ret' = NoRet
    /\ outcome' = NoOutcome
    /\ UNCHANGED <<now, listeners, rafChain, canvasChain, frameQueue, timers, memoryApi,
                   ehVars, accVars, pmVars, captured, appended, driver, announced>>

\* The keydown listeners of addKeyboardShortcutsHelp (lines 260-265): F1
\* toggles the overlay of each listener.
RECURSIVE RunKeyListeners(_, _, _)
RunKeyListeners(ls, overlays, key) ==
    IF ls = <<>> THEN overlays
    ELSE IF Head(ls).type = "keydown" /\ key = "F1"
         THEN RunKeyListeners(Tail(ls),
                [overlays EXCEPT ![Head(ls).owner].display =
                    IF @ = "none" THEN "block" ELSE "none"], key)
         ELSE RunKeyListeners(Tail(ls), overlays, key)

KeyDown(key) ==
    /\ dom' = [dom EXCEPT !.overlays = RunKeyListeners(listeners, @, key)]
    /\ lastCall' = Called("keydown", 0)
    /\ ret' = NoRet
    /\ outcome' = NoOutcome
    /\ UNCHANGED <<now, listeners, rafChain, canvasChain, frameQueue, timers, memoryApi,
                   mqMatches, ehVars, accVars, pmVars, captured, appended, driver, announced>>

\* Page code adds a button to the document.
AddButton(button) ==
    /\ dom' = [dom EXCEPT !.buttons = Append(@, button)]
    /\ lastCall' = Called("addButton", 0)
    /\ ret' = NoRet
    /\ outcome' = NoOutcome
    /\ UNCHANGED <<now, listeners, rafChain, canvasChain, frameQueue, timers, memoryApi,
                   mqMatches, ehVars, accVars, pmVars, captured, appended, driver, announced>>

\* A mutant of LiveRegionTimers: a new announcement cancels the pending clears.
LiveRegionTimers_Cancelling(ts, call, t) ==
    Append(SelectSeq(ts, LAMBDA x : x.kind # "clearLive"),
           [kind |-> "clearLive", due |-> t + ClearDelay, call |-> call])

\* A mutant of LiveRegionTimers: the clear is scheduled a second too late.
LiveRegionTimers_Late(ts, call, t) ==
    Append(ts, [kind |-> "clearLive", due |-> t + 2 * ClearDelay, call |-> call])

\* setTimeout(() => { liveRegion.textContent = '' }, 1000)  (lines 338-340)
LiveRegionTimers(ts, call, t) ==
    Append(ts, [kind |-> "clearLive", due |-> t + ClearDelay, call |-> call])

\* A mutant of AnnouncedRegion: every call creates a region of its own level.
AnnouncedRegion_Recreated(live, message, priority) ==
    [exists |-> TRUE, ariaLive |-> priority, text |-> message, made |-> live.made + 1]

\* The live region after lines 324-335: created on first use, then its text set.
AnnouncedRegion(live, message, priority) ==
    IF live.exists
    THEN [live EXCEPT !.text = message]
    ELSE [exists |-> TRUE, ariaLive |-> priority, text |-> message, made |-> live.made + 1]

\* announceToScreenReader(message, priority) (lines 322-341)
ACC_Announce(message, priority) ==
    LET call == announced.count + 1
    IN  /\ dom' = [dom EXCEPT !.live = AnnouncedRegion(@, message, priority)]
        /\ timers' = LiveRegionTimers(timers, call, now)
        /\ announced' = [announced EXCEPT !.count = call, !.shownBy = call, !.shownAt = now]
        /\ lastCall' = Called("announceToScreenReader", call)
        /\ ret' = NoRet
        /\ outcome' = [kind |-> "announced", message |-> message, priority |-> priority]
        /\ UNCHANGED <<now, listeners, rafChain, canvasChain, frameQueue, memoryApi,
                       mqMatches, ehVars, accVars, pmVars, captured, appended, driver>>

\* The timeout of an announcement fires (line 339).
ClearLiveRegion(i) ==
    /\ i \in 1..Len(timers)
    /\ timers[i].kind = "clearLive"
    /\ timers[i].due <= now
    /\ dom' = [dom EXCEPT !.live.text = ""]
    /\ timers' = SubSeq(timers, 1, i - 1) \o SubSeq(timers, i + 1, Len(timers))
    /\ announced' = [announced EXCEPT
            !.shownBy = 0,
            !.lastClear = [by |-> timers[i].call, erased |-> announced.shownBy,
                           age |-> now - announced.shownAt]]
    /\ lastCall' = Called("timeout", timers[i].call)
    /\ ret' = NoRet
    /\ outcome' = [kind |-> "cleared-live", by |-> timers[i].call]
    /\ UNCHANGED <<now, listeners, rafChain, canvasChain, frameQueue, memoryApi,
                   mqMatches, ehVars, accVars, pmVars, captured, appended, driver>>

----------------------------------------------------------------------------
(* SpecRing: one GameErrorHandler through a long burst of faults *)

RingEvent ==
    [type |-> "error", error |-> Err("boom", "boom@frame"),
     message |-> Str("Uncaught Error: boom")]

\* Source tags of direct handleError calls: the default, and a caller's own.
DirectSources == {"unknown", "constructor"}

NextRing ==
    \/ EH_Init(1)
    \/ (now < MaxRingFaults /\ WindowEvent(RingEvent, 1))
    \/ \E source \in DirectSources :
          now < MaxDirectCalls /\ EH_HandleError(1, Str("manual"), source, 1)
    \/ EH_ClearErrors(1)
    \/ EH_GetErrorStats(1)

SpecRing == Init /\ [][NextRing]_vars

\* C1: after any sequence of captured faults and clearErrors calls the error
\* list of an instance holds at most maxErrors (50) records, and it is exactly
\* the last min(n, 50) records handleError made since the most recent
\* clearErrors, in arrival order; getErrorStats().total is that length.
C1_BoundedRing ==
    /\ \A h \in Handlers :
          /\ Len(errors[h]) <= maxErrors
          /\ Len(errors[h]) = Min(Len(captured[h]), maxErrors)
          /\ errors[h] = SliceLast(captured[h], maxErrors)
    /\ lastCall.op = "getErrorStats" =>
          ret.total = Min(Len(captured[lastCall.inst]), maxErrors)

\* C1 witness: more than 50 faults were captured since the last clear, the
\* oldest ones are gone, and getErrorStats has just reported the total.
C1_Witness ==
    /\ Len(captured[1]) > maxErrors
    /\ Len(errors[1]) = maxErrors
    /\ errors[1][1] = captured[1][Len(captured[1]) - maxErrors + 1]
    /\ lastCall.op = "getErrorStats"
    /\ ret.total = maxErrors

\* C2: clearErrors() followed immediately by getErrorStats() yields total 0,
\* an empty recent list and an empty by-source count; the first fault
\* captured right after a clearErrors is the only record of the list.
C2_ClearThenStats ==
    [][ /\ (lastCall.op = "clearErrors" /\ lastCall'.op = "getErrorStats") =>
              /\ ret'.total = 0
              /\ ret'.recent = <<>>
              /\ DOMAIN ret'.bySource = {}
        /\ (lastCall.op = "clearErrors" /\ lastCall'.op = "error"
              /\ eh_initialized[lastCall.inst]) =>
              /\ Len(errors'[lastCall.inst]) = 1
              /\ errors'[lastCall.inst][1].timestamp = ToISOString(now')
        /\ (lastCall.op = "clearErrors" /\ lastCall' = Called("handleError", lastCall.inst)) =>
              errors'[lastCall.inst] = <<ret'>>
      ]_vars

\* C2 witness: clearErrors emptied a full list, and getErrorStats, called
\* next, reports nothing.
C2_Witness ==
    /\ lastCall.op = "getErrorStats"
    /\ outcome.kind = "cleared"
    /\ outcome.dropped = maxErrors
    /\ ret.total = 0
    /\ ret.recent = <<>>

----------------------------------------------------------------------------
(* SpecCanvas: drawing through the patched canvas prototype *)

Captured == Len(captured[1]) + Len(captured[2])

CanvasEvents ==
    {[type |-> "error", error |-> Null, message |-> Str("Script error.")],
     [type |-> "unhandledrejection", reason |-> Str("rejected")]}

NextCanvas ==
    \/ \E h \in Handlers : EH_Init(h)
    \/ \E op \in DrawOps, fails \in BOOLEAN, clearFails \in BOOLEAN :
          CanvasCall(op, fails, clearFails)
    \/ \E ev \in CanvasEvents : Captured < MaxCanvasFaults /\ WindowEvent(ev, 0)
    \/ \E h \in Handlers : EH_GetErrorStats(h)

SpecCanvas == Init /\ [][NextCanvas]_vars

\* C10: once a GameErrorHandler is initialized, a failure of the native
\* fillRect, drawImage or clearRect never reaches the caller of the patched
\* operation; a failing fillRect, and nothing else, makes exactly one attempt
\* to clear the surface, and a failure of that clear is swallowed too.
C10_DrawFailuresSwallowed ==
    (outcome.kind = "draw" /\ \E h \in Handlers : eh_initialized[h]) =>
        /\ ~outcome.reachedCaller
        /\ outcome.recoveries = IF outcome.op = "fillRect" /\ outcome.failed THEN 1 ELSE 0

\* C10 witness: with both instances initialized a fillRect failed, its one
\* recovery clear failed as well, and the caller saw neither.
C10_Witness ==
    /\ outcome.kind = "draw"
    /\ outcome.op = "fillRect"
    /\ outcome.failed
    /\ outcome.clearFails
    /\ outcome.layers = 2
    /\ outcome.recoveries = 1
    /\ ~outcome.reachedCaller

----------------------------------------------------------------------------
(* SpecFrames: frame callbacks through the patched requestAnimationFrame *)

ThrownValues == {Err("loop failed", "loop@game.js"), Str("oops")}

FrameEvents ==
    {[type |-> "error", error |-> Err("boom", "boom@page.js"), message |-> Str("Uncaught")]}

NextFrames ==
    \/ \E h \in Handlers : EH_Init(h)
    \/ PM_Init
    \/ (Len(frameQueue) < MaxQueue /\ RequestFrame("game"))
    \/ FrameGame(None, 0)
    \/ \E thrown \in ThrownValues : Captured < MaxFrameFaults /\ FrameGame(thrown, 0)
    \/ (now < MaxFrameClock * FrameStep /\ FrameMeasure(FrameStep))
    \/ \E ev \in FrameEvents : Captured < MaxFrameFaults /\ WindowEvent(ev, 0)

SpecFrames == Init /\ [][NextFrames]_vars

\* A step in which the scheduler ran a callback of the page.
GameFrameStep ==
    /\ frameQueue # <<>>
    /\ Head(frameQueue).cb = "game"
    /\ frameQueue' = Tail(frameQueue)
    /\ lastCall'.op = "frame"

\* C9: once a GameErrorHandler is initialized, an exception thrown inside a
\* callback scheduled through requestAnimationFrame is caught by the wrapper,
\* appended to one instance's error list as one record with the source tag
\* 'requestAnimationFrame', and does not propagate to the scheduler; a
\* callback that does not throw adds no record.
C9_FrameExceptionsCaptured ==
    [][ GameFrameStep =>
          /\ (outcome'.threw /\ Head(frameQueue).guards # <<>>) =>
                /\ ~outcome'.escaped
                /\ \E c \in Handlers :
                      /\ Len(captured'[c]) = Len(captured[c]) + 1
                      /\ errors'[c] # <<>>
                      /\ errors'[c][Len(errors'[c])] = captured'[c][Len(captured'[c])]
                      /\ errors'[c][Len(errors'[c])].source = "requestAnimationFrame"
                      /\ SubSeq(errors'[c], 1, Len(errors'[c]) - 1)
                            = SliceLast(errors[c], maxErrors - 1)
                      /\ \A h \in Handlers \ {c} :
                            errors'[h] = errors[h] /\ captured'[h] = captured[h]
          /\ ~outcome'.threw => (errors' = errors /\ ~outcome'.escaped)
      ]_vars

\* C9 witness: a callback scheduled after init threw, nothing reached the
\* scheduler, and the newest record of an instance carries the source tag.
C9_Witness ==
    /\ outcome.kind = "frame"
    /\ outcome.cb = "game"
    /\ outcome.threw
    /\ outcome.guards # <<>>
    /\ ~outcome.escaped
    /\ outcome.caught = 1
    /\ \E c \in Handlers :
          /\ errors[c] # <<>>
          /\ errors[c][Len(errors[c])].source = "requestAnimationFrame"
          /\ errors[c][Len(errors[c])].message = "loop failed"

----------------------------------------------------------------------------
(* SpecInit: the three init() entry points on a small page *)

SamplePage ==
    [EmptyDom EXCEPT
        !.buttons = <<[ariaLabel |-> Null, text |-> " Play ", title |-> Null,
                       id |-> "", classes |-> {}]>>,
        !.images = <<[alt |-> Null, ariaLabel |-> Null, title |-> Str("Logo"), id |-> ""]>>,
        !.containers = <<[tabindex |-> Null, role |-> Null, ariaLabel |-> Null,
                          id |-> "game"]>>]

LateButton == [ariaLabel |-> Null, text |-> "", title |-> Null, id |-> "retry", classes |-> {}]

SampleReading == [used |-> 100 * MiB, total |-> 200 * MiB, limit |-> 1000 * MiB]

InitInit == \E mem \in BOOLEAN, mq \in BOOLEAN : InitPage(SamplePage, mem, mq)

NextInit ==
    \/ \E h \in Handlers : EH_Init(h)
    \/ ACC_Init
    \/ PM_Init
    \/ (Len(dom.buttons) < MaxButtons /\ AddButton(LateButton))
    \/ MediaChange
    \/ KeyDown("F1")
    \/ (now < MaxInitClock * MemoryPeriod /\ Idle(MemoryPeriod))
    \/ (now < MaxInitClock * MemoryPeriod /\ FrameMeasure(MemoryPeriod))
    \/ \E i \in 1..Len(timers) : Len(appended.memory) < MaxInitClock /\ MemoryTick(i, SampleReading)

SpecInit == InitInit /\ [][NextInit]_vars

\* Everything the program and the page hold (not the observation variables).
programVars == <<pageVars, ehVars, accVars, pmVars>>

\* C8: for each of the three components, init() on an instance that is
\* already initialized is a no-op: no listener, wrapper, frame loop, interval
\* or DOM element is added and no instance state changes (the recorded load
\* time included).
C8_InitIdempotent ==
    [][ /\ (lastCall'.op = "init" /\ eh_initialized[lastCall'.inst]) => UNCHANGED programVars
        /\ (lastCall'.op = "acc.init" /\ acc_initialized) => UNCHANGED programVars
        /\ (lastCall'.op = "pm.init" /\ pm_initialized) => UNCHANGED programVars
      ]_vars

\* C8 witness: init() has just returned early on the performance monitor,
\* later than its first init, with every component initialized, a button the
\* first sweep never saw, and the listeners, wrappers and interval of exactly
\* one init each.
C8_Witness ==
    /\ lastCall.op = "pm.init"
    /\ outcome.kind = "init" /\ outcome.early
    /\ metrics.loadTime # Num(now)
    /\ acc_initialized
    /\ \A h \in Handlers : eh_initialized[h]
    /\ Len(listeners) = 6
    /\ Len(rafChain) = 2
    /\ Len(timers) = 1
    /\ Len(dom.overlays) = 1
    /\ \E i \in 1..Len(dom.buttons) : dom.buttons[i].ariaLabel = Null

----------------------------------------------------------------------------
(* SpecSeries: one GamePerformanceMonitor through a run of several minutes *)

InitSeries == InitPage(EmptyDom, TRUE, FALSE)

NextSeries ==
    \/ PM_Init
    \/ (~pm_initialized /\ now < MaxLoadDelay * SeriesStep /\ Idle(SeriesStep))
    \/ (now < MaxSeriesClock * SeriesStep /\ FrameMeasure(SeriesStep))
    \/ \E i \in 1..Len(timers) : MemoryTick(i, SampleReading)

SpecSeries == InitSeries /\ [][NextSeries]_vars

\* C3: however frames and memory-interval ticks interleave and however long
\* the run, the fps series and the memory series each hold at most 60
\* entries, and each is exactly the most recent min(n, 60) samples pushed on
\* it, in push order.
C3_BoundedSeries ==
    /\ Len(metrics.fps) <= MaxSamples
    /\ Len(metrics.fps) = Min(Len(appended.fps), MaxSamples)
    /\ metrics.fps = SliceLast(appended.fps, MaxSamples)
    /\ Len(metrics.memory) <= MaxSamples
    /\ Len(metrics.memory) = Min(Len(appended.memory), MaxSamples)
    /\ metrics.memory = SliceLast(appended.memory, MaxSamples)

\* C3 witness: both series have overflowed, and the oldest sample of each,
\* different from the one now in front, is gone.
C3_Witness ==
    /\ Len(appended.fps) > MaxSamples
    /\ Len(appended.memory) > MaxSamples
    /\ Len(metrics.fps) = MaxSamples
    /\ Len(metrics.memory) = MaxSamples
    /\ metrics.fps[1] # appended.fps[1]
    /\ metrics.memory[1] # appended.memory[1]

----------------------------------------------------------------------------
(* SpecSampler: a frame driver delivering windows of uniform frames *)

WindowRates == {1, 2, 4}

Readings ==
    {[used |-> 100 * MiB, total |-> 200 * MiB, limit |-> 1000 * MiB],
     [used |-> 900 * MiB, total |-> 950 * MiB, limit |-> 1000 * MiB]}

InitSampler == InitPage(EmptyDom, FALSE, FALSE)

NextSampler ==
    \/ PM_Init
    \/ (now < MaxSamplerClock /\ Idle(SamplerStep))
    \/ \E n \in WindowRates : now < MaxSamplerClock /\ StartWindow(n)
    \/ WindowFrame
    \/ (now < MaxSamplerClock /\ driver.left = 0 /\ FrameMeasure(SamplerStep))

SpecSampler == InitSampler /\ [][NextSampler]_vars

\* C4 as stated: whenever the driver has delivered its N frames, uniformly
\* over exactly 1000 ms, to a sampler that had no frame counted when the
\* window began, the one sample recorded in that window is N.
C4_AsStated ==
    (driver.n > 0 /\ driver.left = 0 /\ driver.fresh) => driver.samples = <<driver.n>>

\* C4 amended: when the window starts at the sampler's anchor (lastTime: the
\* time of construction or of the last recorded sample) with no frame counted
\* since, the one sample recorded in the window is N.
C4_AlignedWindow ==
    (driver.n > 0 /\ driver.left = 0 /\ driver.aligned) =>
        /\ driver.samples = <<driver.n>>
        /\ metrics.fps # <<>>
        /\ metrics.fps[Len(metrics.fps)] = driver.n
        /\ lastTime = now
        /\ frameCount = 0

\* C4 witness: an aligned window of 4 frames has just ended with the sample 4,
\* after an earlier sample had moved the anchor away from construction time.
C4_Witness ==
    /\ driver.n = 4
    /\ driver.left = 0
    /\ driver.aligned
    /\ driver.samples = <<4>>
    /\ Len(metrics.fps) >= 2
    /\ metrics.fps[Len(metrics.fps)] = 4

----------------------------------------------------------------------------
(* SpecReport: getPerformanceReport / getPerformanceSuggestions on any series *)

FpsValues == {0, 19, 20, 29, 30, 31, 60}

RECURSIVE SeqsUpTo(_, _)
SeqsUpTo(S, n) ==
    IF n = 0 THEN {<<>>}
    ELSE LET shorter == SeqsUpTo(S, n - 1)
         IN  shorter \cup {Append(q, x) : q \in shorter, x \in S}

Snapshot(r, t) ==
    [usedJSHeapSize |-> r.used, totalJSHeapSize |-> r.total,
     jsHeapSizeLimit |-> r.limit, timestamp |-> t]

InitReport ==
    /\ now = 0
    /\ listeners = <<>> /\ rafChain = <<>> /\ canvasChain = <<>>
    /\ frameQueue = <<[cb |-> "measureFPS", guards |-> <<>>]>>
    /\ timers = <<[kind |-> "interval", due |-> MemoryPeriod, call |-> 0]>>
    /\ memoryApi = TRUE /\ dom = EmptyDom /\ mqMatches = FALSE
    /\ eh_initialized = [h \in Handlers |-> FALSE]
    /\ errors = [h \in Handlers |-> <<>>]
    /\ acc_initialized = FALSE
    /\ pm_initialized = TRUE
    /\ \E fps \in SeqsUpTo(FpsValues, MaxReportLen),
          mem \in {<<>>} \cup {<<Snapshot(r, 0)>> : r \in Readings} :
          /\ metrics = [fps |-> fps, memory |-> mem, loadTime |-> Num(0)]
          /\ appended = [fps |-> fps, memory |-> mem]
    /\ frameCount = 0
    /\ lastTime = 0
    /\ lastCall = [op |-> "new", inst |-> 0]
    /\ ret = NoRet
    /\ outcome = NoOutcome
    /\ captured = [h \in Handlers |-> <<>>]
    /\ driver = NoDriver
    /\ announced = NoneAnnounced

NextReport ==
    \/ PM_GetPerformanceReport
    \/ PM_GetPerformanceSuggestions

SpecReport == InitReport /\ [][NextReport]_vars

SeqSum(q) ==
    LET sum[i \in 0..Len(q)] == IF i = 0 THEN 0 ELSE sum[i - 1] + q[i]
    IN  sum[Len(q)]
Suggested(x) == \E i \in 1..Len(ret) : ret[i] = x

\* C5: for every content of the fps series, getPerformanceSuggestions()
\* contains the quality-reduction suggestion exactly when the rounded mean is
\* 29 or below and the severity suggestion exactly when it is 19 or below,
\* and neither at 30 or above; the rounded mean is the true mean rounded to
\* the nearest integer (0 for an empty series).
C5_FpsSuggestions ==
    LET fps == metrics.fps
        avg == PerformanceReport(metrics).averageFPS
    IN  /\ lastCall.op = "getPerformanceSuggestions" =>
              /\ Suggested("reduce-quality") <=> avg <= 29
              /\ Suggested("very-low-fps") <=> avg <= 19
              /\ avg >= 30 => ~Suggested("reduce-quality") /\ ~Suggested("very-low-fps")
              /\ IF fps = <<>> THEN avg = 0
                 ELSE /\ 2 * Len(fps) * avg <= 2 * SeqSum(fps) + Len(fps)
                      /\ 2 * Len(fps) * avg > 2 * SeqSum(fps) - Len(fps)
        /\ lastCall.op = "getPerformanceReport" => ret.averageFPS = avg

\* C5 witness: a series whose true mean 29.5 is reported as 30, just above
\* the threshold, and no low-fps suggestion is made.
C5_Witness ==
    /\ lastCall.op = "getPerformanceSuggestions"
    /\ metrics.fps = <<29, 30>>
    /\ metrics.memory = <<>>
    /\ ret = <<>>

----------------------------------------------------------------------------
(* SpecAnnounce: announcements to the live region and their clear timers *)

Messages == {"test", "again"}
Priorities == {"polite", "assertive"}

NextAnnounce ==
    \/ \E m \in Messages, p \in Priorities :
          announced.count < MaxAnnouncements /\ ACC_Announce(m, p)
    \/ (now < MaxAnnounceClock /\ Idle(AnnounceStep))
    \/ \E i \in 1..Len(timers) : ClearLiveRegion(i)

SpecAnnounce == Init /\ [][NextAnnounce]_vars

DueClears == {i \in 1..Len(timers) : timers[i].kind = "clearLive" /\ timers[i].due <= now}

\* C6: right after announceToScreenReader(m, p) the live region's text is m;
\* once the 1-second clear delay of the latest call has elapsed and its
\* timeout has run, the text is the empty string.
C6_AnnounceThenClear ==
    /\ lastCall.op = "announceToScreenReader" =>
          /\ dom.live.exists
          /\ dom.live.text = outcome.message
    /\ (announced.count > 0 /\ now >= announced.shownAt + ClearDelay /\ DueClears = {}) =>
          /\ dom.live.exists
          /\ dom.live.text = ""

\* C6 witness: the timeout of the only announcement so far has just run, one
\* second after the call, and emptied the region.
C6_Witness ==
    /\ lastCall.op = "timeout"
    /\ announced.count = 1
    /\ now = announced.shownAt + ClearDelay
    /\ announced.lastClear.by = 1
    /\ announced.lastClear.erased = 1
    /\ dom.live.text = ""
    /\ timers = <<>>

\* A timer of the live region, as it stands in a timer list.
Pending(ts, t) == \E j \in 1..Len(ts) : ts[j] = t

\* C7: the clear scheduled by an announcement is never cancelled: a pending
\* clear stays pending until it is due and then empties the region whatever
\* it shows; when it erases the message of a newer call announced later than
\* its own, that message has been visible for less than one second.
C7_ClearNeverCancelled ==
    [][ /\ \A i \in 1..Len(timers) :
              \/ Pending(timers', timers[i])
              \/ /\ timers[i].due <= now
                 /\ lastCall' = Called("timeout", timers[i].call)
                 /\ dom'.live.text = ""
        /\ (lastCall'.op = "timeout" /\ timers' # timers) =>
              LET c == announced'.lastClear
                  fired == timers[CHOOSE i \in 1..Len(timers) :
                                     timers[i].call = lastCall'.inst]
              IN  /\ c.by = lastCall'.inst
                  /\ c.erased = announced.shownBy
                  /\ c.age = now - announced.shownAt
                  /\ (c.erased > c.by /\ announced.shownAt > fired.due - ClearDelay)
                        => c.age < ClearDelay
      ]_vars

\* C7 witness: the timer of an older call has just emptied the region while
\* the message of a newer call, announced less than a second ago, was
\* showing; the newer call's own timer is still pending.
C7_Witness ==
    /\ lastCall.op = "timeout"
    /\ announced.lastClear.erased > announced.lastClear.by
    /\ announced.lastClear.age < ClearDelay
    /\ announced.lastClear.age > 0
    /\ dom.live.text = ""
    /\ \E i \in 1..Len(timers) :
          timers[i].call = announced.lastClear.erased /\ timers[i].due > now

----------------------------------------------------------------------------
(* SpecCanvas, continued: what a failed drawing operation leaves behind *)

\* C11 as stated: when a wrapped drawing operation fails, a fault record for
\* it is added to the error list of an initialized instance.
C11_AsStated ==
    [][ (lastCall'.op \in DrawOps /\ outcome'.failed /\ \E h \in Handlers : eh_initialized[h]) =>
            \E h \in Handlers :
                /\ eh_initialized[h]
                /\ Len(captured'[h]) = Len(captured[h]) + 1
                /\ errors'[h] # <<>>
      ]_vars

\* C11 amended: a failure of a wrapped drawing operation is swallowed and
\* logged as a console warning only; it adds no record to any instance's
\* error list, unlike an uncaught error or unhandled rejection, which adds
\* one record to the list of every initialized instance.
C11_DrawFailuresOnlyLogged ==
    [][ /\ lastCall'.op \in DrawOps =>
              /\ errors' = errors
              /\ captured' = captured
              /\ (outcome'.failed /\ outcome'.layers > 0) =>
                    (outcome'.warns >= 1 /\ ~outcome'.reachedCaller)
              /\ ~outcome'.failed => outcome'.warns = 0
        /\ lastCall'.op \in {"error", "unhandledrejection"} =>
              \A h \in Handlers :
                  /\ Len(captured'[h]) = Len(captured[h]) + (IF eh_initialized[h] THEN 1 ELSE 0)
                  /\ errors'[h] = SliceLast(captured'[h], maxErrors)
      ]_vars

\* C11 witness: a drawImage has just failed under one wrapper layer and was
\* logged once, and the only record of the instance is the one an earlier
\* unhandled rejection made.
C11_Witness ==
    /\ outcome.kind = "draw"
    /\ outcome.op = "drawImage"
    /\ outcome.failed
    /\ outcome.layers = 1
    /\ outcome.warns = 1
    /\ \E h \in Handlers :
          /\ eh_initialized[h]
          /\ Len(errors[h]) = 1
          /\ errors[h][1].source = "unhandledrejection"

----------------------------------------------------------------------------
(* SpecRing, continued: what getErrorStats reports *)

\* C12: in every reachable state getErrorStats() returns as recent exactly
\* the last min(10, total) records of the list, in arrival order, and a
\* by-source count whose keys are exactly the source tags present in the list
\* and whose values are the numbers of records with that tag (so that they
\* sum to total).
C12_StatsOfRing ==
    lastCall.op = "getErrorStats" =>
        LET errs == errors[lastCall.inst]
            k == Len(ret.recent)
        IN  /\ ret.total = Len(errs)
            /\ k = (IF ret.total < 10 THEN ret.total ELSE 10)
            /\ \A i \in 1..k : ret.recent[i] = errs[ret.total - k + i]
            /\ DOMAIN ret.bySource = {errs[i].source : i \in 1..Len(errs)}
            /\ \A t \in DOMAIN ret.bySource :
                  ret.bySource[t] = Num(Cardinality({i \in 1..Len(errs) : errs[i].source = t}))

----------------------------------------------------------------------------
(* SpecLabels: the sweep of GameAccessibility.init over any small page *)

\* The buttons a page may hold: with or without an aria-label attribute (it
\* may be empty), text (it may be blank), a title and an id.
LabelButtons ==
    {[ariaLabel |-> a, text |-> t, title |-> ti, id |-> i, classes |-> {}] :
        a \in {Null, Str(""), Str("Close")}, t \in {"", " ", " Play "},
        ti \in {Null, Str("Tip")}, i \in {"", "retry"}}

InitLabels ==
    \E bs \in SeqsUpTo(LabelButtons, MaxLabelButtons) :
        InitPage([EmptyDom EXCEPT !.buttons = bs], TRUE, FALSE)

NextLabels ==
    \/ ACC_Init
    \/ KeyDown("F1")

SpecLabels == InitLabels /\ [][NextLabels]_vars

\* The label the fallback priority gives a button without an aria-label:
\* its visible text, else its title, else its id, else the generic string.
PriorityLabel(b) ==
    IF b.text \notin {"", " "} THEN Trim(b.text)
    ELSE IF b.title # Null /\ b.title.s # "" THEN b.title.s
    ELSE IF b.id # "" THEN b.id
    ELSE DefaultButtonLabel

\* C13: the sweep of init() gives every button that had no aria-label
\* attribute a non-empty one, chosen by the priority visible text, title, id,
\* generic fallback; a button with none of these gets the generic fallback,
\* never an empty string; a button that had the attribute keeps its value.
C13_ButtonLabels ==
    [][ (lastCall'.op = "acc.init" /\ ~acc_initialized) =>
            /\ Len(dom'.buttons) = Len(dom.buttons)
            /\ \A i \in 1..Len(dom.buttons) :
                  LET b == dom.buttons[i]
                      after == dom'.buttons[i].ariaLabel
                  IN  /\ b.ariaLabel # Null => after = b.ariaLabel
                      /\ b.ariaLabel = Null =>
                            /\ after = Str(PriorityLabel(b))
                            /\ after.s # ""
      ]_vars

\* C13 witness: after init a button with blank text and no title or id
\* carries the generic fallback label, next to a button that kept its own
\* empty aria-label.
C13_Witness ==
    /\ acc_initialized
    /\ Len(dom.buttons) = 2
    /\ dom.buttons[1].text = " " /\ dom.buttons[1].title = Null /\ dom.buttons[1].id = ""
    /\ dom.buttons[1].ariaLabel = Str(DefaultButtonLabel)
    /\ dom.buttons[2].ariaLabel = Str("")
    /\ dom.buttons[2].text = " Play "

----------------------------------------------------------------------------
(* SpecLabels, continued: the focus style of the sweep *)

\* The focus style elements in the document's head.
FocusStyles(d) == {i \in 1..Len(d.head) : d.head[i] = FocusStyle}

\* C14: the focus style rule is injected once: the sweep of init() over a
\* page with one or more buttons adds exactly one focus style element to the
\* document, and every button carries the marker class afterwards.
C14_FocusStyleOnce ==
    [][ (lastCall'.op = "acc.init" /\ ~acc_initialized /\ Len(dom.buttons) >= 1) =>
            /\ Cardinality(FocusStyles(dom')) = Cardinality(FocusStyles(dom)) + 1
            /\ \A i \in 1..Len(dom'.buttons) : "has-focus-style" \in dom'.buttons[i].classes
      ]_vars

----------------------------------------------------------------------------
(* SpecInit, continued: forced colors *)

\* The override style elements in the document's head.
HighContrastStyles(d) == {i \in 1..Len(d.head) : d.head[i].id = "high-contrast-styles"}

\* C15: after the annotator's init() and any sequence of forced-colors
\* change events, the page-level marker class is present if and only if the
\* media query's latest state matched, and the override style element is
\* present, in exactly one copy, if and only if the marker class is present.
C15_HighContrastTracksQuery ==
    acc_initialized =>
        /\ ("high-contrast-mode" \in dom.htmlClasses) <=> mqMatches
        /\ Cardinality(HighContrastStyles(dom)) =
              (IF "high-contrast-mode" \in dom.htmlClasses THEN 1 ELSE 0)

\* C15 witness: a change event has just switched forced colors on after
\* init; the marker class and one override style element are in place, the
\* style element behind the focus style the sweep added.
C15_Witness ==
    /\ acc_initialized
    /\ lastCall.op = "change"
    /\ mqMatches
    /\ "high-contrast-mode" \in dom.htmlClasses
    /\ Cardinality(HighContrastStyles(dom)) = 1
    /\ dom.head = <<FocusStyle, HighContrastStyle>>

----------------------------------------------------------------------------
(* SpecSampler, continued: one frame of measureFPS *)

\* A step in which the scheduler ran the sampler's measureFPS callback.
MeasureStep ==
    /\ frameQueue # <<>>
    /\ Head(frameQueue).cb = "measureFPS"
    /\ lastCall'.op = "frame"

\* C16: on each animation frame the sampler counts the frame; when at least
\* 1000 ms have elapsed since the anchor it appends exactly one sample, equal
\* to count * 1000 / elapsed rounded to the nearest integer (also when that
\* is below 30), resets the counter to 0 and moves the anchor to the current
\* time; otherwise it appends nothing and leaves series and anchor unchanged.
C16_MeasureFrame ==
    [][ MeasureStep =>
          LET count == frameCount + 1
              elapsed == now' - lastTime
          IN  IF elapsed >= 1000
              THEN /\ Len(appended'.fps) = Len(appended.fps) + 1
                   /\ SubSeq(appended'.fps, 1, Len(appended.fps)) = appended.fps
                   /\ LET r == appended'.fps[Len(appended'.fps)]
                      IN  /\ 2 * elapsed * r <= 2 * count * 1000 + elapsed
                          /\ 2 * elapsed * r > 2 * count * 1000 - elapsed
                          /\ metrics'.fps # <<>>
                          /\ metrics'.fps[Len(metrics'.fps)] = r
                   /\ Len(metrics'.fps) = (IF Len(metrics.fps) < 60 THEN Len(metrics.fps) + 1 ELSE 60)
                   /\ frameCount' = 0
                   /\ lastTime' = now'
              ELSE /\ frameCount' = count
                   /\ metrics'.fps = metrics.fps
                   /\ appended'.fps = appended.fps
                   /\ lastTime' = lastTime
      ]_vars

\* C16 witness: a frame 1250 ms after the anchor, the second one counted, has
\* just recorded the sample 2 (1.6 rounded), a rate below 30, and reset the
\* counter and the anchor.
C16_Witness ==
    /\ outcome.kind = "frame"
    /\ outcome.cb = "measureFPS"
    /\ outcome.sampled
    /\ outcome.warned
    /\ outcome.elapsed = 1250
    /\ outcome.count = 2
    /\ metrics.fps # <<>>
    /\ metrics.fps[Len(metrics.fps)] = 2
    /\ frameCount = 0
    /\ lastTime = now

----------------------------------------------------------------------------
(* SpecLoop: the sampler's frame loop next to throwing frame callbacks *)

\* The scheduler delivers a callback of the page; it may throw.
GameFrame ==
    \/ FrameGame(None, 0)
    \/ \E thrown \in ThrownValues : Captured < MaxLoopFaults /\ FrameGame(thrown, 0)

\* The scheduler delivers the sampler's callback, LoopStep ms later.
SamplerFrame == now < MaxLoopClock * LoopStep /\ FrameMeasure(LoopStep)

NextLoop ==
    \/ EH_Init(1)
    \/ PM_Init
    \/ (Len(frameQueue) < MaxQueue /\ RequestFrame("game"))
    \/ GameFrame
    \/ SamplerFrame

\* Frames keep being delivered: a queued callback is run, the sampler's
\* whenever it is at the head of the queue again and again.
SpecLoop ==
    Init /\ [][NextLoop]_vars /\ WF_vars(GameFrame) /\ SF_vars(SamplerFrame)

\* The measureFPS callbacks pending with the frame scheduler.
PendingMeasures == {i \in 1..Len(frameQueue) : frameQueue[i].cb = "measureFPS"}

\* C17: after the sampler's init() exactly one measureFPS callback is pending
\* with the frame scheduler in every state (none before init), also when a
\* GameErrorHandler has wrapped the scheduler and other callbacks throw; so,
\* while frames are delivered and the clock has a second and a frame left to
\* run, a further sample is eventually appended.
C17_LoopRearms ==
    /\ [](Cardinality(PendingMeasures) = (IF pm_initialized THEN 1 ELSE 0))
    /\ \A k \in 0..MaxLoopClock :
          [](( /\ pm_initialized
               /\ Len(appended.fps) = k
               /\ now + SampleWindow + LoopStep <= MaxLoopClock * LoopStep)
             => <>(Len(appended.fps) > k))

\* C17 witness: two samples have been appended by a loop that runs through
\* the wrapper of an initialized GameErrorHandler, a page callback has thrown
\* meanwhile, and one measureFPS callback is pending.
C17_Witness ==
    /\ pm_initialized
    /\ eh_initialized[1]
    /\ Len(appended.fps) = 2
    /\ Len(captured[1]) >= 1
    /\ captured[1][1].source = "requestAnimationFrame"
    /\ Cardinality(PendingMeasures) = 1
    /\ \E i \in PendingMeasures : frameQueue[i].guards = <<1>>

----------------------------------------------------------------------------
(* SpecEarly: reports asked of a sampler before and shortly after init *)

NextEarly ==
    \/ PM_Init
    \/ (now < MaxEarlyClock * EarlyStep /\ Idle(EarlyStep))
    \/ (now < MaxEarlyClock * EarlyStep /\ FrameMeasure(EarlyStep))
    \/ PM_GetPerformanceReport
    \/ PM_GetPerformanceSuggestions

SpecEarly == Init /\ [][NextEarly]_vars

\* C18: while the fps series is empty (before init, or in the first second
\* after it) getPerformanceReport() reports current, mean, minimum and
\* maximum fps as 0, and getPerformanceSuggestions() returns both the
\* quality-reduction and the severity suggestion.
C18_EmptySeriesReport ==
    metrics.fps = <<>> =>
        /\ lastCall.op = "getPerformanceReport" =>
              /\ ret.currentFPS = 0
              /\ ret.averageFPS = 0
              /\ ret.minFPS = 0
              /\ ret.maxFPS = 0
              /\ ret.fpsSamples = 0
        /\ lastCall.op = "getPerformanceSuggestions" =>
              /\ Len(ret) >= 2
              /\ ret[1] = "reduce-quality"
              /\ ret[2] = "very-low-fps"

\* C18 witness: half a second after init, with two frames counted and no
\* sample yet, getPerformanceSuggestions has returned both suggestions.
C18_Witness ==
    /\ pm_initialized
    /\ metrics.loadTime = Num(0)
    /\ now = 500
    /\ frameCount = 2
    /\ metrics.fps = <<>>
    /\ lastCall.op = "getPerformanceSuggestions"
    /\ ret = <<"reduce-quality", "very-low-fps">>

----------------------------------------------------------------------------
(* SpecNested: two GameErrorHandler instances on one page *)

NextNested ==
    \/ \E h \in Handlers : EH_Init(h)
    \/ (Len(frameQueue) < MaxQueue /\ RequestFrame("game"))
    \/ FrameGame(None, 0)
    \/ \E thrown \in ThrownValues : Captured < MaxNestedFaults /\ FrameGame(thrown, 0)
    \/ \E ev \in CanvasEvents : Captured < MaxNestedFaults /\ WindowEvent(ev, 0)

SpecNested == Init /\ [][NextNested]_vars

\* C19: when two GameErrorHandler instances have both been initialized, an
\* exception thrown by a frame callback scheduled afterwards is recorded in
\* the error list of exactly one instance, the most recently initialized one
\* (and reaches neither the other instance nor the scheduler), whereas an
\* uncaught window error or unhandled rejection is recorded once in each.
C19_NestedWrappers ==
    [][ /\ (GameFrameStep /\ outcome'.threw /\ Len(Head(frameQueue).guards) = 2) =>
              LET latest == rafChain[Len(rafChain)]
              IN  /\ Len(rafChain) = 2
                  /\ Len(captured'[latest]) = Len(captured[latest]) + 1
                  /\ captured'[latest][Len(captured'[latest])].source = "requestAnimationFrame"
                  /\ errors'[latest] = SliceLast(captured'[latest], maxErrors)
                  /\ \A h \in Handlers \ {latest} :
                        errors'[h] = errors[h] /\ captured'[h] = captured[h]
                  /\ ~outcome'.escaped
        /\ (lastCall'.op \in {"error", "unhandledrejection"} /\ \A h \in Handlers : eh_initialized[h]) =>
              \A h \in Handlers :
                  /\ Len(captured'[h]) = Len(captured[h]) + 1
                  /\ captured'[h][Len(captured'[h])].source =
                        (IF lastCall'.op = "error" THEN "window.error" ELSE "unhandledrejection")
                  /\ errors'[h] = SliceLast(captured'[h], maxErrors)
      ]_vars

\* C19 witness: instance 2 was initialized first and instance 1 after it; an
\* unhandled rejection was recorded by both, and a frame callback's exception
\* has just been recorded by instance 1 alone.
C19_Witness ==
    /\ rafChain = <<2, 1>>
    /\ outcome.kind = "frame"
    /\ outcome.threw
    /\ outcome.guards = <<2, 1>>
    /\ outcome.caught = 1
    /\ Len(errors[2]) = 1
    /\ errors[2][1].source = "unhandledrejection"
    /\ Len(errors[1]) = 2
    /\ errors[1][1].source = "unhandledrejection"
    /\ errors[1][2].source = "requestAnimationFrame"

----------------------------------------------------------------------------
(* SpecAnnounce, continued: the one live region of a page *)

\* C20: the live region is created at most once per page and its politeness
\* level is the priority of the first announceToScreenReader call; every
\* later call, whatever its priority, reuses the region and changes only its
\* text.
C20_OneLiveRegion ==
    [][ /\ dom'.live.made <= 1
        /\ dom.live.exists =>
              /\ dom'.live.exists
              /\ dom'.live.made = dom.live.made
              /\ dom'.live.ariaLive = dom.live.ariaLive
        /\ lastCall'.op = "announceToScreenReader" =>
              /\ dom'.live.exists
              /\ dom'.live.text = outcome'.message
              /\ dom'.live.ariaLive =
                    (IF dom.live.exists THEN dom.live.ariaLive ELSE outcome'.priority)
              /\ dom'.live.made = 1
      ]_vars

\* C20 witness: the second call asked for "assertive"; the region made by
\* the first call is still "polite" and shows the second call's message.
C20_Witness ==
    /\ lastCall.op = "announceToScreenReader"
    /\ announced.count = 2
    /\ outcome.priority = "assertive"
    /\ outcome.message = "again"
    /\ dom.live.made = 1
    /\ dom.live.ariaLive = "polite"
    /\ dom.live.text = "again"

====
